---- MODULE Spec2Model ----
(***************************************************************************)
(* Oman Store Billing API (src/main.py, src/schemas.py).                   *)
(*                                                                         *)
(* The document store holds three collections: user, product, invoice.     *)
(* Every HTTP endpoint is one action; a request is handled from start to   *)
(* end in one step (requests do not overlap in Spec).  request and         *)
(* response record the last request served and its answer; nextId is the   *)
(* next identifier the store assigns to a product.  calls holds the        *)
(* create_invoice requests that SpecCalls serves step by step, several at  *)
(* a time; in Spec it never changes.                                       *)
(*                                                                         *)
(* Conventions                                                             *)
(*  - currency amounts are integers in thousandths (0.010 is 10);          *)
(*  - an identifier string is an integer: 0 is a string that is not a      *)
(*    well-formed ObjectId, n >= 1 is the well-formed ObjectId number n;   *)
(*  - Python None is the string None, the empty string is ""; where a       *)
(*    record is expected and there is none, the record Absent stands;      *)
(*  - an instant is an integer count of half seconds since                 *)
(*    2024-12-31T00:00:00 UTC; day 0 is 2024-12-31, day k in 1 .. 31 is    *)
(*    2025-01-k, day 31 + k is 2025-02-k.                                  *)
(***************************************************************************)
EXTENDS Integers, Sequences, FiniteSets, TLC

VARIABLES user, product, invoice, nextId, now, request, response, calls

vars == <<user, product, invoice, nextId, now, request, response, calls>>

----------------------------------------------------------------------------
(* Bounds of the model *)

MaxProducts == 2
MaxInvoices == 2
MaxDay == 1
MaxCalls == 2

(* Input domains *)

None == "None"

(* A record that is not there: the parameters of a request that were     *)
(* never read, the body of an error response, what a message names when  *)
(* it names nothing                                                      *)
Absent == [none |-> TRUE]

(* Product request bodies (schemas.Product); every numeric field is >= 0, *)
(* anything else is answered 422 before the handler runs.  purchase_price *)
(* is stored and never read by a handler; it is left out.                 *)
ProductInputs ==
    { [name |-> "tea",  category |-> "General", quantity |-> 2,
       selling_price |-> 12, barcode |-> "b1"],
      [name |-> "chai", category |-> "Food", quantity |-> 1,
       selling_price |-> 25, barcode |-> ""],
      [name |-> "tea", category |-> "General", quantity |-> 2,
       selling_price |-> 12, barcode |-> None] }

(* The bodies sent to update_product: the one that carries a barcode *)
UpdateInputs == { p \in ProductInputs : p.barcode \notin {None, ""} }

(* Identifier strings of requests: 0 is not a well-formed ObjectId *)
IdStrings == 0 .. MaxProducts

(* A cart line (CartItem): product_id is any string, quantity any integer *)
Line(product_id, quantity) ==
    [product_id |-> product_id, quantity |-> quantity]

Carts ==
    { <<>>,
      <<Line(1, 1)>>,
      <<Line(1, 0)>>,
      <<Line(0, 1)>>,
      <<Line(1, 2), Line(1, 1)>>,
      <<Line(1, 1), Line(2, 2)>>,
      <<Line(1, 1), Line(1, -1)>> }

Discounts == {-5, 0, 15}

(* The carts sent with a discount other than 0 *)
DiscountedCarts == { <<Line(1, 1)>> }

(* Requests to create an invoice (CreateInvoiceRequest) *)
InvoiceInputs ==
    { r \in [customer_name : {None}, customer_phone : {None},
             items : Carts, discount : Discounts] :
        r.discount = 0 \/ r.items \in DiscountedCarts }

(* date of daily_report: <<>> when omitted, else <<y, m, d>> for "y-m-d" *)
DateInputs == { <<>>, <<2024, 12, 31>> }

(* year and month of monthly_report: 0 when omitted *)
MonthInputs == { <<2024, 12>>, <<2025, 0>> }

(* Query strings of list_products *)
ListInputs ==
    { [q |-> "TEA", category |-> None, barcode |-> None],
      [q |-> None, category |-> "food", barcode |-> ""] }

(* re.search(q, name, IGNORECASE) on the strings of the model *)
RegexSearch == { <<"TEA", "tea">> }

(* str.lower() on the strings of the model *)
Lower(x) == IF x = "General" THEN "general"
            ELSE IF x = "Food" THEN "food" ELSE x

(* list_products returns at most this many products *)
ListLimit == 50

Credentials ==
    { [username |-> "admin", password |-> "pw1"],
      [username |-> "admin", password |-> "pw2"],
      [username |-> "bob",   password |-> "pw2"],
      [username |-> "eve",   password |-> "pw1"] }

(* The create_invoice requests served step by step *)
Calls == 1 .. MaxCalls

(* The carts of those requests: product 1 alone, products 1 and 2, and   *)
(* more of product 2 than the catalog ever holds                         *)
CallCarts ==
    { <<Line(1, 2)>>,
      <<Line(1, 1), Line(2, 1)>>,
      <<Line(2, 2)>> }

CallInputs ==
    [customer_name : {None}, customer_phone : {None},
     items : CallCarts, discount : {0}]

----------------------------------------------------------------------------
(* Generic helpers *)

Max(a, b) == IF a >= b THEN a ELSE b

Abs(a) == IF a >= 0 THEN a ELSE 0 - a

MinOf(S) == CHOOSE x \in S : \A y \in S : x <= y

(* Python truthiness of an Optional[str] *)
Truthy(v) == v # None /\ v # ""

(* Python truthiness of an Optional[int] *)
TruthyInt(v) == v # 0

(* bson.ObjectId(s) for a well-formed s, and str() of an ObjectId *)
IsObjectIdString(s) == s >= 1

ObjectId(s) == <<"oid", s>>

Str(oid) == oid[2]

----------------------------------------------------------------------------
(* Clock and calendar *)

HalfSecPerDay == 2 * 24 * 60 * 60

DayOf(t) == t \div HalfSecPerDay

YearOf(t) == IF DayOf(t) <= 0 THEN 2024 ELSE 2025

MonthOf(t) == IF DayOf(t) <= 0 THEN 12 ELSE IF DayOf(t) <= 31 THEN 1 ELSE 2

DayOfMonth(t) ==
    IF DayOf(t) <= 0 THEN 31 + DayOf(t)
    ELSE IF DayOf(t) <= 31 THEN DayOf(t) ELSE DayOf(t) - 31

(* now.strftime("%Y%m%d"), the digits read as a number *)
DatePart(t) == YearOf(t) * 10000 + MonthOf(t) * 100 + DayOfMonth(t)

(* Days before the first of month m in a year *)
DaysBeforeMonth(y, m) ==
    <<0, 31, 59, 90, 120, 151, 181, 212, 243, 273, 304, 334>>[m]
    + (IF y = 2024 /\ m >= 3 THEN 1 ELSE 0)

(* Day number of January 1 of year y (2024-12-31 is day 0) *)
YearStart(y) == IF y = 2024 THEN 0 - 365 ELSE IF y = 2025 THEN 1 ELSE 366

(* datetime(y, m, d) as an instant *)
InstantOf(y, m, d) ==
    (YearStart(y) + DaysBeforeMonth(y, m) + d - 1) * HalfSecPerDay

(* An Optional[datetime] that is None *)
NoTime == 0 - 1

(* The instants the clock visits: midnight of each day *)
DayOffsets == {0}

Instants == { d * HalfSecPerDay + o : d \in 0 .. MaxDay, o \in DayOffsets }

(* The instants the clock visits in SpecReports: the first and the last   *)
(* half second of 2024-12-31 and of January 2025, and the first of         *)
(* February                                                                *)
ReportInstants ==
    { InstantOf(2024, 12, 31), InstantOf(2025, 1, 1) - 1,
      InstantOf(2025, 1, 1), InstantOf(2025, 2, 1) - 1,
      InstantOf(2025, 2, 1) }

(* Invoice numbers asked of get_invoice: <<"INV", yyyymmdd, n>> stands for *)
(* the string INV-yyyymmdd-n, n written with four digits                   *)
InvoiceNos ==
    { <<"INV", DatePart(t), 1>> : t \in Instants }
    \cup { <<"INV", DatePart(0), n>> : n \in 1 .. MaxInvoices }

----------------------------------------------------------------------------
(* Document store primitives (pymongo) on a collection kept as the         *)
(* sequence of its documents in insertion order                            *)

(* find(filter): the matching documents in the store's order *)
Find(coll, Match(_)) == SelectSeq(coll, Match)

(* find_one(filter): <<d>> for the first matching document d, <<>> for None *)
FindOne(coll, Match(_)) ==
    IF Find(coll, Match) = <<>> THEN <<>> ELSE <<Head(Find(coll, Match))>>

(* count_documents({field: value}): a document without the field never matches *)
CountDocuments(coll, field, value) ==
    Cardinality({ i \in DOMAIN coll :
                    field \in DOMAIN coll[i] /\ coll[i][field] = value })

(* update_one({"_id": oid}, ...): the collection after applying Upd to the *)
(* first document with that _id; unchanged when no document matches        *)
UpdateOne(coll, oid, Upd(_)) ==
    LET hits == { i \in DOMAIN coll : coll[i]._id = oid }
    IN  IF hits = {} THEN coll
        ELSE [coll EXCEPT ![MinOf(hits)] = Upd(coll[MinOf(hits)])]

MatchedCount(coll, oid) ==
    IF \E i \in DOMAIN coll : coll[i]._id = oid THEN 1 ELSE 0

(* delete_one({"_id": oid}) *)
DeleteOne(coll, oid) ==
    LET hits == { i \in DOMAIN coll : coll[i]._id = oid }
    IN  IF hits = {} THEN coll
        ELSE SubSeq(coll, 1, MinOf(hits) - 1)
             \o SubSeq(coll, MinOf(hits) + 1, Len(coll))

(* database.create_document: the record's fields, a creation timestamp    *)
(* when the schema has one and it is absent, and the store-assigned _id   *)
create_document(coll, data, oid, t) ==
    LET stamped == IF "created_at" \in DOMAIN data /\ data.created_at = NoTime
                   THEN [data EXCEPT !.created_at = t] ELSE data
    IN  Append(coll, [_id |-> oid] @@ stamped)

----------------------------------------------------------------------------
(* Responses *)

(* A response: detail is the message of an HTTPException, about is what  *)
(* the message names: [product_id |-> s], [name |-> s] or Absent          *)
Ok(op, body) ==
    [op |-> op, status |-> 200, detail |-> "", about |-> Absent, body |-> body]

ErrorAbout(op, status, detail, about) ==
    [op |-> op, status |-> status, detail |-> detail, about |-> about,
     body |-> Absent]

Error(op, status, detail) == ErrorAbout(op, status, detail, Absent)

(* An exception that no handler catches (pydantic ValidationError,        *)
(* bson InvalidId): the framework answers 500 Internal Server Error       *)
Unhandled(op, what) == Error(op, 500, what)

----------------------------------------------------------------------------
(* Authentication *)

(* The lookup without the is_active filter *)
authenticate_bad(cred) ==
    LET u == FindOne(user, LAMBDA d : d.username = cred.username)
    IN  IF u = <<>> THEN Error("", 401, "Invalid credentials")
        ELSE IF u[1].password_hash # cred.password
             THEN Error("", 401, "Invalid credentials")
        ELSE Ok("", [username |-> u[1].username, role |-> u[1].role])

authenticate(cred) ==
    LET u == FindOne(user, LAMBDA d : d.username = cred.username /\ d.is_active)
    IN  IF u = <<>> THEN Error("", 401, "Invalid credentials")
        ELSE IF u[1].password_hash # cred.password
             THEN Error("", 401, "Invalid credentials")
        ELSE Ok("", [username |-> u[1].username, role |-> u[1].role])

(* The credentials on record before the first request *)
NoCredentials == [username |-> None, password |-> None]

(* A protected endpoint resolves Depends(authenticate) first; when that  *)
(* raises, the request body is never looked at, the handler never runs   *)
(* and the answer is the same whatever the endpoint                      *)
Unauthorized(cred) ==
    /\ request' = [cred |-> cred, args |-> Absent]
    /\ response' = authenticate(cred)
    /\ UNCHANGED <<user, product, invoice, nextId, now, calls>>

----------------------------------------------------------------------------
(* Product endpoints *)

add_product_body(cred, p) ==
    /\ request' = [cred |-> cred, args |-> p]
    /\ IF Truthy(p.barcode)
          /\ FindOne(product, LAMBDA d : d.barcode = p.barcode) # <<>>
       THEN /\ response' = Error("add_product", 400, "Barcode already exists")
            /\ UNCHANGED <<user, product, invoice, nextId, now, calls>>
       ELSE /\ nextId <= MaxProducts
            /\ product' = create_document(product, p, ObjectId(nextId), now)
            /\ nextId' = nextId + 1
            /\ response' = Ok("add_product", [_id |-> nextId])
            /\ UNCHANGED <<user, invoice, now, calls>>

add_product ==
    \E cred \in Credentials :
        IF authenticate(cred).status # 200 THEN Unauthorized(cred)
        ELSE \E p \in ProductInputs : add_product_body(cred, p)

(* The answer is the JSON list of the products found; the record field   *)
(* products holds it                                                     *)
list_products_body(cred, a) ==
    LET qOk(d) == ~Truthy(a.q) \/ <<a.q, d.name>> \in RegexSearch
        catOk(d) == ~Truthy(a.category) \/ Lower(d.category) = Lower(a.category)
        barOk(d) == ~Truthy(a.barcode) \/ d.barcode = a.barcode
        found == Find(product, LAMBDA d : qOk(d) /\ catOk(d) /\ barOk(d))
        items == SubSeq(found, 1, IF Len(found) < ListLimit THEN Len(found)
                                  ELSE ListLimit)
    IN  /\ request' = [cred |-> cred, args |-> a]
        /\ response' = Ok("list_products",
                          [products |->
                             [i \in DOMAIN items |->
                                [items[i] EXCEPT !._id = Str(items[i]._id)]]])
        /\ UNCHANGED <<user, product, invoice, nextId, now, calls>>

list_products ==
    \E cred \in Credentials :
        IF authenticate(cred).status # 200 THEN Unauthorized(cred)
        ELSE \E a \in ListInputs : list_products_body(cred, a)

(* The new name and price copied into the items of stored invoices *)
update_product_body_cascade(cred, product_id, p) ==
    /\ request' = [cred |-> cred, args |-> [product_id |-> product_id, product |-> p]]
    /\ IF ~IsObjectIdString(product_id)
       THEN /\ response' = Error("update_product", 400, "Invalid product id")
            /\ UNCHANGED <<user, product, invoice, nextId, now, calls>>
       ELSE IF MatchedCount(product, ObjectId(product_id)) = 0
       THEN /\ response' = Error("update_product", 404, "Product not found")
            /\ UNCHANGED <<user, product, invoice, nextId, now, calls>>
       ELSE /\ product' = UpdateOne(product, ObjectId(product_id),
                                    LAMBDA d : [_id |-> d._id] @@ p)
            /\ invoice' =
                 [i \in DOMAIN invoice |->
                    [invoice[i] EXCEPT !.items =
                       [k \in DOMAIN @ |->
                          IF @[k].product_id = product_id
                          THEN [@[k] EXCEPT !.name = p.name,
                                            !.price = p.selling_price]
                          ELSE @[k]]]]
            /\ response' = Ok("update_product", [updated |-> TRUE])
            /\ UNCHANGED <<user, nextId, now, calls>>

(* $set of every field of the body; the updated_at stamp that goes with *)
(* it is read by no handler and is left out                              *)
update_product_body(cred, product_id, p) ==
    /\ request' = [cred |-> cred, args |-> [product_id |-> product_id, product |-> p]]
    /\ IF ~IsObjectIdString(product_id)
       THEN /\ response' = Error("update_product", 400, "Invalid product id")
            /\ UNCHANGED <<user, product, invoice, nextId, now, calls>>
       ELSE IF MatchedCount(product, ObjectId(product_id)) = 0
       THEN /\ response' = Error("update_product", 404, "Product not found")
            /\ UNCHANGED <<user, product, invoice, nextId, now, calls>>
       ELSE /\ product' = UpdateOne(product, ObjectId(product_id),
                                    LAMBDA d : [_id |-> d._id] @@ p)
            /\ response' = Ok("update_product", [updated |-> TRUE])
            /\ UNCHANGED <<user, invoice, nextId, now, calls>>

update_product ==
    \E cred \in Credentials :
        IF authenticate(cred).status # 200 THEN Unauthorized(cred)
        ELSE \E product_id \in IdStrings, p \in UpdateInputs :
                 update_product_body(cred, product_id, p)

delete_product_body(cred, product_id) ==
    /\ request' = [cred |-> cred, args |-> [product_id |-> product_id]]
    /\ IF ~IsObjectIdString(product_id)
       THEN /\ response' = Error("delete_product", 400, "Invalid product id")
            /\ UNCHANGED <<user, product, invoice, nextId, now, calls>>
       ELSE IF MatchedCount(product, ObjectId(product_id)) = 0
       THEN /\ response' = Error("delete_product", 404, "Product not found")
            /\ UNCHANGED <<user, product, invoice, nextId, now, calls>>
       ELSE /\ product' = DeleteOne(product, ObjectId(product_id))
            /\ response' = Ok("delete_product", [deleted |-> TRUE])
            /\ UNCHANGED <<user, invoice, nextId, now, calls>>

delete_product ==
    \E cred \in Credentials :
        IF authenticate(cred).status # 200 THEN Unauthorized(cred)
        ELSE \E product_id \in IdStrings :
                 delete_product_body(cred, product_id)

----------------------------------------------------------------------------
(* Billing *)

(* The fixed tax rate 0.05, as a fraction *)
TaxRateNum == 5
TaxRateDen == 100

(* Truncation instead of rounding *)
Round3_truncate(n, den) == { n \div den }

(* round(n / den, 3) of a non-negative amount in thousandths: the nearest *)
(* thousandth.  On an exact half, float arithmetic lands on either side   *)
(* (round(0.090 * 0.05, 3) is 0.004, round(0.010 * 0.05, 3) is 0.001), so *)
(* both neighbours are possible results.                                  *)
Round3(n, den) ==
    IF 2 * (n % den) < den THEN { n \div den }
    ELSE IF 2 * (n % den) > den THEN { (n \div den) + 1 }
    ELSE { n \div den, (n \div den) + 1 }

RECURSIVE SumTotals(_)
SumTotals(items) ==
    IF items = <<>> THEN 0 ELSE Head(items).total + SumTotals(Tail(items))

generate_invoice_no(coll, t) ==
    <<"INV", DatePart(t), CountDocuments(coll, "date", DatePart(t)) + 1>>

(* The constraints without the lower bound of quantity *)
InvoiceItemValid_noquantity(it) == it.price >= 0 /\ it.total >= 0

(* schemas.InvoiceItem field constraints *)
InvoiceItemValid(it) == it.quantity >= 1 /\ it.price >= 0 /\ it.total >= 0

(* schemas.Invoice field constraints *)
InvoiceValid(inv) ==
    /\ inv.subtotal >= 0
    /\ inv.discount >= 0
    /\ inv.tax_rate >= 0
    /\ inv.tax_amount >= 0
    /\ inv.grand_total >= 0

(* The loop over the cart lines: the first failing line ends the request *)
RECURSIVE BuildItems(_, _)
BuildItems(cart, prod_map) ==
    IF cart = <<>> THEN [err |-> Ok("", Absent), items |-> <<>>]
    ELSE
      LET ci == Head(cart)
          p == FindOne(prod_map, LAMBDA d : Str(d._id) = ci.product_id)
      IN  IF p = <<>>
          THEN [err |-> ErrorAbout("", 400, "Product not found",
                                   [product_id |-> ci.product_id]),
                items |-> <<>>]
          ELSE IF p[1].quantity < ci.quantity
          THEN [err |-> ErrorAbout("", 400, "Insufficient stock for",
                                   [name |-> p[1].name]),
                items |-> <<>>]
          ELSE
            LET item == [product_id |-> Str(p[1]._id),
                         name |-> p[1].name,
                         quantity |-> ci.quantity,
                         price |-> p[1].selling_price,
                         total |-> ci.quantity * p[1].selling_price]
                rest == BuildItems(Tail(cart), prod_map)
            IN  IF ~InvoiceItemValid(item)
                THEN [err |-> Unhandled("", "ValidationError"), items |-> <<>>]
                ELSE IF rest.err.status # 200 THEN rest
                ELSE [err |-> rest.err, items |-> <<item>> \o rest.items]

(* A read-modify-write from the quantities read before the loop *)
RECURSIVE SetStock(_, _, _)
SetStock(coll, cart, before) ==
    IF cart = <<>> THEN coll
    ELSE SetStock(
           UpdateOne(coll, ObjectId(Head(cart).product_id),
                     LAMBDA d : [d EXCEPT !.quantity =
                        FindOne(before, LAMBDA b : b._id = d._id)[1].quantity
                        - Head(cart).quantity]),
           Tail(cart), before)

ReduceStock_stale(coll, cart) == SetStock(coll, cart, coll)

(* The loop that reduces stock: one $inc per cart line *)
RECURSIVE ReduceStock(_, _)
ReduceStock(coll, cart) ==
    IF cart = <<>> THEN coll
    ELSE ReduceStock(
           UpdateOne(coll, ObjectId(Head(cart).product_id),
                     LAMBDA d : [d EXCEPT !.quantity = @ - Head(cart).quantity]),
           Tail(cart))

(* The products of the batch lookup find({"_id": {"$in": product_ids}}) *)
ProdMap(cart) ==
    Find(product, LAMBDA d :
            \E i \in DOMAIN cart : d._id = ObjectId(cart[i].product_id))

(* The InvoiceSchema record of a request, given the rounded tax *)
NewInvoice(payload, items, tax_amount) ==
    [invoice_no |-> generate_invoice_no(invoice, now),
     customer_name |-> payload.customer_name,
     customer_phone |-> payload.customer_phone,
     items |-> items,
     subtotal |-> SumTotals(items),
     discount |-> payload.discount,
     tax_rate |-> TaxRateNum,
     tax_amount |-> tax_amount,
     grand_total |-> Max(SumTotals(items) - payload.discount, 0) + tax_amount,
     created_at |-> now]

(* Totals, invoice number, persistence, then the stock updates *)
PersistInvoice(cred, payload, items) ==
    LET op == "create_invoice"
        subtotal == SumTotals(items)
        discount == payload.discount
        taxable == Max(subtotal - discount, 0)
    IN
    \E tax_amount \in Round3(taxable * TaxRateNum, TaxRateDen) :
      LET inv == NewInvoice(payload, items, tax_amount)
          inserted_id == MaxProducts + Len(invoice) + 1
      IN  IF ~InvoiceValid(inv)
          THEN /\ response' = Unhandled(op, "ValidationError")
               /\ UNCHANGED <<user, product, invoice, nextId, now, calls>>
          ELSE /\ Len(invoice) < MaxInvoices
               /\ invoice' = create_document(invoice, inv,
                                             ObjectId(inserted_id), now)
               /\ product' = ReduceStock(product, payload.items)
               /\ response' = Ok(op, [_id |-> inserted_id,
                                      invoice_no |-> inv.invoice_no])
               /\ UNCHANGED <<user, nextId, now, calls>>

(* Stock reduced line by line inside the validating loop: the lines     *)
(* before a failing one stay deducted                                   *)
create_invoice_body_eager(cred, payload) ==
    LET op == "create_invoice"
        cart == payload.items
        built == BuildItems(cart, ProdMap(cart))
        good == CHOOSE k \in 0 .. Len(cart) :
                   /\ BuildItems(SubSeq(cart, 1, k), ProdMap(cart)).err.status = 200
                   /\ \A m \in (k + 1) .. Len(cart) :
                         BuildItems(SubSeq(cart, 1, m), ProdMap(cart)).err.status # 200
    IN
    /\ request' = [cred |-> cred, args |-> payload]
    /\ IF \E i \in DOMAIN cart : ~IsObjectIdString(cart[i].product_id)
       THEN /\ response' = Unhandled(op, "InvalidId")
            /\ UNCHANGED <<user, product, invoice, nextId, now, calls>>
       ELSE IF built.err.status # 200
       THEN /\ response' = [built.err EXCEPT !.op = op]
            /\ product' = ReduceStock(product, SubSeq(cart, 1, good))
            /\ UNCHANGED <<user, invoice, nextId, now, calls>>
       ELSE PersistInvoice(cred, payload, built.items)

create_invoice_body(cred, payload) ==
    LET op == "create_invoice"
        cart == payload.items
        built == BuildItems(cart, ProdMap(cart))
    IN
    /\ request' = [cred |-> cred, args |-> payload]
    /\ IF \E i \in DOMAIN cart : ~IsObjectIdString(cart[i].product_id)
       THEN /\ response' = Unhandled(op, "InvalidId")
            /\ UNCHANGED <<user, product, invoice, nextId, now, calls>>
       ELSE IF built.err.status # 200
       THEN /\ response' = [built.err EXCEPT !.op = op]
            /\ UNCHANGED <<user, product, invoice, nextId, now, calls>>
       ELSE PersistInvoice(cred, payload, built.items)

create_invoice ==
    \E cred \in Credentials :
        IF authenticate(cred).status # 200 THEN Unauthorized(cred)
        ELSE \E payload \in InvoiceInputs :
                 create_invoice_body(cred, payload)

(* The document as get_invoice returns it: identifiers rendered as strings *)
Rendered(d) == [d EXCEPT !._id = Str(d._id)]

get_invoice_body(cred, invoice_no) ==
    LET inv == FindOne(invoice, LAMBDA d : d.invoice_no = invoice_no)
    IN  /\ request' = [cred |-> cred, args |-> [invoice_no |-> invoice_no]]
        /\ response' = IF inv = <<>>
                       THEN Error("get_invoice", 404, "Invoice not found")
                       ELSE Ok("get_invoice", Rendered(inv[1]))
        /\ UNCHANGED <<user, product, invoice, nextId, now, calls>>

get_invoice ==
    \E cred \in Credentials :
        IF authenticate(cred).status # 200 THEN Unauthorized(cred)
        ELSE \E invoice_no \in InvoiceNos :
                 get_invoice_body(cred, invoice_no)

----------------------------------------------------------------------------
(* create_invoice step by step.  The runtime serves requests from a pool *)
(* of workers, so several create_invoice requests are in progress at the *)
(* same time; each operation on the store is one step.  calls[c] holds   *)
(* the locals of request c: where it is (pc), its payload, the products  *)
(* it read (prod_map), the items it built, the number of stock updates   *)
(* it has made (done), the identifier and number of its invoice, and its *)
(* answer.                                                               *)

(* A request that has not arrived yet *)
NoCall ==
    [pc |-> "idle",
     payload |-> [customer_name |-> None, customer_phone |-> None,
                  items |-> <<>>, discount |-> 0],
     prod_map |-> <<>>, items |-> <<>>, done |-> 0,
     inserted_id |-> 0, invoice_no |-> <<>>,
     response |-> Ok("", Absent)]

(* The request ends with an answer *)
Answered(call, answer) == [call EXCEPT !.pc = "done", !.response = answer]

(* The stock reduced as soon as the cart has passed the checks, before   *)
(* the invoice is persisted                                              *)
BeginCall_deducts(c, cred, payload) ==
    LET op == "create_invoice"
        cart == payload.items
        built == BuildItems(cart, ProdMap(cart))
        call == [calls[c] EXCEPT !.payload = payload]
    IN  /\ calls[c].pc = "idle"
        /\ IF authenticate(cred).status # 200
           THEN /\ calls' = [calls EXCEPT ![c] = Answered(call, authenticate(cred))]
                /\ UNCHANGED product
           ELSE IF \E i \in DOMAIN cart : ~IsObjectIdString(cart[i].product_id)
           THEN /\ calls' = [calls EXCEPT
                               ![c] = Answered(call, Unhandled(op, "InvalidId"))]
                /\ UNCHANGED product
           ELSE IF built.err.status # 200
           THEN /\ calls' = [calls EXCEPT
                               ![c] = Answered(call, [built.err EXCEPT !.op = op])]
                /\ UNCHANGED product
           ELSE /\ calls' = [calls EXCEPT
                               ![c] = [call EXCEPT !.pc = "built",
                                                   !.prod_map = ProdMap(cart),
                                                   !.items = built.items]]
                /\ product' = ReduceStock(product, cart)
        /\ UNCHANGED <<user, invoice, nextId, now, request, response>>

(* Authentication, the batch lookup of the cart's products and the loop  *)
(* over the cart lines, which works on the products it has read          *)
BeginCall(c, cred, payload) ==
    LET op == "create_invoice"
        cart == payload.items
        built == BuildItems(cart, ProdMap(cart))
        call == [calls[c] EXCEPT !.payload = payload]
    IN  /\ calls[c].pc = "idle"
        /\ calls' =
             [calls EXCEPT ![c] =
                IF authenticate(cred).status # 200
                THEN Answered(call, authenticate(cred))
                ELSE IF \E i \in DOMAIN cart :
                           ~IsObjectIdString(cart[i].product_id)
                THEN Answered(call, Unhandled(op, "InvalidId"))
                ELSE IF built.err.status # 200
                THEN Answered(call, [built.err EXCEPT !.op = op])
                ELSE [call EXCEPT !.pc = "built",
                                  !.prod_map = ProdMap(cart),
                                  !.items = built.items]]
        /\ UNCHANGED <<user, product, invoice, nextId, now, request, response>>

begin_call ==
    \E c \in Calls, cred \in Credentials, payload \in CallInputs :
        BeginCall(c, cred, payload)

(* Totals, invoice number and create_document.  The count behind the    *)
(* invoice number and the insert are two operations on the store; the   *)
(* count is over a field that no invoice document has, so no step of    *)
(* another request between the two changes it                           *)
PersistCall(c) ==
    LET op == "create_invoice"
        call == calls[c]
        taxable == Max(SumTotals(call.items) - call.payload.discount, 0)
    IN
    /\ call.pc = "built"
    /\ \E tax_amount \in Round3(taxable * TaxRateNum, TaxRateDen) :
         LET inv == NewInvoice(call.payload, call.items, tax_amount)
             inserted_id == MaxProducts + Len(invoice) + 1
         IN  IF ~InvoiceValid(inv)
             THEN /\ calls' = [calls EXCEPT
                                 ![c] = Answered(call, Unhandled(op, "ValidationError"))]
                  /\ UNCHANGED invoice
             ELSE /\ Len(invoice) < MaxInvoices
                  /\ invoice' = create_document(invoice, inv,
                                                ObjectId(inserted_id), now)
                  /\ calls' = [calls EXCEPT
                                 ![c] = [call EXCEPT !.pc = "stored",
                                                     !.inserted_id = inserted_id,
                                                     !.invoice_no = inv.invoice_no]]
    /\ UNCHANGED <<user, product, nextId, now, request, response>>

persist_call == \E c \in Calls : PersistCall(c)

(* create_document raises (the store does not take the write): the       *)
(* exception ends the request                                            *)
PersistFails(c) ==
    /\ calls[c].pc = "built"
    /\ calls' = [calls EXCEPT
                   ![c] = Answered(calls[c],
                                   Unhandled("create_invoice", "PyMongoError"))]
    /\ UNCHANGED <<user, product, invoice, nextId, now, request, response>>

persist_fails == \E c \in Calls : PersistFails(c)

(* An update that applies only while the stock covers the line *)
ReduceCall_guarded(c) ==
    LET call == calls[c]
        ci == call.payload.items[call.done + 1]
    IN  /\ call.pc = "stored"
        /\ call.done < Len(call.payload.items)
        /\ product' = UpdateOne(product, ObjectId(ci.product_id),
                                LAMBDA d : IF d.quantity >= ci.quantity
                                           THEN [d EXCEPT !.quantity = @ - ci.quantity]
                                           ELSE d)
        /\ calls' = [calls EXCEPT ![c].done = @ + 1]
        /\ UNCHANGED <<user, invoice, nextId, now, request, response>>

(* One round of the loop that reduces stock: the $inc of the next line *)
ReduceCall(c) ==
    LET call == calls[c]
        ci == call.payload.items[call.done + 1]
    IN  /\ call.pc = "stored"
        /\ call.done < Len(call.payload.items)
        /\ product' = UpdateOne(product, ObjectId(ci.product_id),
                                LAMBDA d : [d EXCEPT !.quantity = @ - ci.quantity])
        /\ calls' = [calls EXCEPT ![c].done = @ + 1]
        /\ UNCHANGED <<user, invoice, nextId, now, request, response>>

reduce_call == \E c \in Calls : ReduceCall(c)

(* The loop is over: the answer *)
ReturnCall(c) ==
    LET call == calls[c]
    IN  /\ call.pc = "stored"
        /\ call.done = Len(call.payload.items)
        /\ calls' = [calls EXCEPT
                       ![c] = Answered(call,
                                Ok("create_invoice",
                                   [_id |-> call.inserted_id,
                                    invoice_no |-> call.invoice_no]))]
        /\ UNCHANGED <<user, product, invoice, nextId, now, request, response>>

return_call == \E c \in Calls : ReturnCall(c)

(* A failure that is followed by a compensation: the invoice is removed *)
FailCall_rollback(c) ==
    /\ calls[c].pc = "stored"
    /\ calls[c].done < Len(calls[c].payload.items)
    /\ calls' = [calls EXCEPT ![c].pc = "failed"]
    /\ invoice' = DeleteOne(invoice, ObjectId(calls[c].inserted_id))
    /\ UNCHANGED <<user, product, nextId, now, request, response>>

(* The request dies between create_document and the end of the loop (an *)
(* update raises, the process is killed): nothing it wrote is undone     *)
FailCall(c) ==
    /\ calls[c].pc = "stored"
    /\ calls[c].done < Len(calls[c].payload.items)
    /\ calls' = [calls EXCEPT ![c].pc = "failed"]
    /\ UNCHANGED <<user, product, invoice, nextId, now, request, response>>

fail_call == \E c \in Calls : FailCall(c)

(* The catalog the requests find: two products in stock *)
CallCatalog ==
    LET tea == CHOOSE p \in ProductInputs : p.barcode = "b1"
        chai == CHOOSE p \in ProductInputs : p.barcode = ""
    IN  create_document(create_document(<<>>, tea, ObjectId(1), 0),
                        chai, ObjectId(2), 0)

(* The state after the two add_product requests that fill the catalog *)
InitCalls ==
    /\ user = << [username |-> "admin", full_name |-> "Admin", role |-> "admin",
                  password_hash |-> "pw1", is_active |-> TRUE],
                 [username |-> "bob", full_name |-> "Bob", role |-> "cashier",
                  password_hash |-> "pw2", is_active |-> FALSE] >>
    /\ product = CallCatalog
    /\ invoice = <<>>
    /\ nextId = 3
    /\ now = 0
    /\ request = [cred |-> [username |-> "admin", password |-> "pw1"],
                  args |-> CHOOSE p \in ProductInputs : p.barcode = ""]
    /\ response = Ok("add_product", [_id |-> 2])
    /\ calls = [c \in Calls |-> NoCall]

NextCalls ==
    \/ begin_call
    \/ persist_call
    \/ persist_fails
    \/ reduce_call
    \/ return_call
    \/ fail_call

SpecCalls == InitCalls /\ [][NextCalls]_vars

----------------------------------------------------------------------------
(* Reports *)

RECURSIVE SumField(_, _)
SumField(docs, field) ==
    IF docs = <<>> THEN 0
    ELSE Head(docs)[field] + SumField(Tail(docs), field)

(* The $match/$group pipeline shared by both reports, and the fallback   *)
(* returned when no invoice matches                                      *)
Aggregate(matched) ==
    IF matched = <<>>
    THEN [sales |-> 0, subtotal |-> 0, discount |-> 0, tax |-> 0, count |-> 0]
    ELSE [_id |-> None,
          sales |-> SumField(matched, "grand_total"),
          subtotal |-> SumField(matched, "subtotal"),
          discount |-> SumField(matched, "discount"),
          tax |-> SumField(matched, "tax_amount"),
          count |-> Len(matched)]

(* The daily report of coll asked at instant t: from T00:00:00 to        *)
(* T23:59:59 of the date, both included                                  *)
DailyReport(coll, date, t) ==
    LET d == IF date = <<>>
             THEN <<YearOf(t), MonthOf(t), DayOfMonth(t)>> ELSE date
        start == InstantOf(d[1], d[2], d[3])
        end == start + HalfSecPerDay - 2
    IN  Aggregate(Find(coll, LAMBDA i :
                          i.created_at >= start /\ i.created_at <= end))

daily_report_body(cred, date) ==
    /\ request' = [cred |-> cred, args |-> [date |-> date]]
    /\ response' = Ok("daily_report", DailyReport(invoice, date, now))
    /\ UNCHANGED <<user, product, invoice, nextId, now, calls>>

daily_report ==
    \E cred \in Credentials :
        IF authenticate(cred).status # 200 THEN Unauthorized(cred)
        ELSE \E date \in DateInputs : daily_report_body(cred, date)

(* The window ending on the first of the next month of the same year *)
MonthlyReport_sameyear(coll, year, month, t) ==
    LET y == IF TruthyInt(year) THEN year ELSE YearOf(t)
        m == IF TruthyInt(month) THEN month ELSE MonthOf(t)
        start == InstantOf(y, m, 1)
        end == InstantOf(y, IF m = 12 THEN 1 ELSE m + 1, 1)
    IN  Aggregate(Find(coll, LAMBDA i :
                          i.created_at >= start /\ i.created_at < end))

(* The monthly report of coll asked at instant t: from the first instant *)
(* of the month, included, to the first instant of the next, excluded    *)
MonthlyReport(coll, year, month, t) ==
    LET y == IF TruthyInt(year) THEN year ELSE YearOf(t)
        m == IF TruthyInt(month) THEN month ELSE MonthOf(t)
        start == InstantOf(y, m, 1)
        end == InstantOf(y + (IF m = 12 THEN 1 ELSE 0),
                         IF m = 12 THEN 1 ELSE m + 1, 1)
    IN  Aggregate(Find(coll, LAMBDA i :
                          i.created_at >= start /\ i.created_at < end))

monthly_report_body(cred, year, month) ==
    /\ request' = [cred |-> cred, args |-> [year |-> year, month |-> month]]
    /\ response' = Ok("monthly_report", MonthlyReport(invoice, year, month, now))
    /\ UNCHANGED <<user, product, invoice, nextId, now, calls>>

monthly_report ==
    \E cred \in Credentials :
        IF authenticate(cred).status # 200 THEN Unauthorized(cred)
        ELSE \E ym \in MonthInputs :
                 monthly_report_body(cred, ym[1], ym[2])

----------------------------------------------------------------------------
(* The clock moves on between requests *)

Tick ==
    /\ \E t \in Instants : t > now /\ now' = t
    /\ UNCHANGED <<user, product, invoice, nextId, request, response, calls>>

----------------------------------------------------------------------------
(* The users are provisioned out of band; the catalog starts empty *)

Init ==
    /\ user = << [username |-> "admin", full_name |-> "Admin", role |-> "admin",
                  password_hash |-> "pw1", is_active |-> TRUE],
                 [username |-> "bob", full_name |-> "Bob", role |-> "cashier",
                  password_hash |-> "pw2", is_active |-> FALSE] >>
    /\ product = <<>>
    /\ invoice = <<>>
    /\ nextId = 1
    /\ now = 0
    /\ request = [cred |-> NoCredentials, args |-> Absent]
    /\ response = Ok("", Absent)
    /\ calls = [c \in Calls |-> NoCall]

Next ==
    \/ add_product
    \/ list_products
    \/ update_product
    \/ delete_product
    \/ create_invoice
    \/ get_invoice
    \/ daily_report
    \/ monthly_report
    \/ Tick

Spec == Init /\ [][Next]_vars

----------------------------------------------------------------------------
(* The reports over invoices created around midnight and the turn of the *)
(* month: the same handlers, the clock at sub-second resolution          *)

TickReports ==
    /\ \E t \in ReportInstants : t > now /\ now' = t
    /\ UNCHANGED <<user, product, invoice, nextId, request, response, calls>>

(* The state after the first add_product request of Spec: one product in *)
(* stock                                                                  *)
StockedInputs == { p \in ProductInputs : p.barcode = "b1" }

InitReports ==
    \E p \in StockedInputs :
        /\ user = << [username |-> "admin", full_name |-> "Admin",
                      role |-> "admin", password_hash |-> "pw1",
                      is_active |-> TRUE],
                     [username |-> "bob", full_name |-> "Bob",
                      role |-> "cashier", password_hash |-> "pw2",
                      is_active |-> FALSE] >>
        /\ product = create_document(<<>>, p, ObjectId(1), 0)
        /\ invoice = <<>>
        /\ nextId = 2
        /\ now = 0
        /\ request = [cred |-> [username |-> "admin", password |-> "pw1"],
                      args |-> p]
        /\ response = Ok("add_product", [_id |-> 1])
        /\ calls = [c \in Calls |-> NoCall]

NextReports ==
    \/ create_invoice
    \/ daily_report
    \/ monthly_report
    \/ TickReports

SpecReports == InitReports /\ [][NextReports]_vars

----------------------------------------------------------------------------
(* Properties *)

(* Every step but Tick serves one request: Tick alone moves the clock *)
RequestStep == now' = now

(* A step in which create_invoice answers 200 for an invoice that was not *)
(* stored before                                                          *)
InvoiceCreated ==
    /\ response'.op = "create_invoice"
    /\ response'.status = 200
    /\ \A i \in DOMAIN invoice : Str(invoice[i]._id) # response'.body._id

(* The quantity a cart asks of the product with identifier string pid *)
RECURSIVE Sold(_, _)
Sold(cart, pid) ==
    IF cart = <<>> THEN 0
    ELSE (IF Head(cart).product_id = pid THEN Head(cart).quantity ELSE 0)
         + Sold(Tail(cart), pid)

RECURSIVE SumLines(_)
SumLines(items) ==
    IF items = <<>> THEN 0
    ELSE Head(items).quantity * Head(items).price + SumLines(Tail(items))

(* C1: with requests served one at a time, every product's quantity is  *)
(* >= 0 in every reachable state, whatever the carts (a product may be   *)
(* listed on several lines).                                             *)
C1_StockNeverNegative ==
    \A i \in DOMAIN product : product[i].quantity >= 0

(* C2: the k-th invoice of a UTC date carries sequence number k, that is *)
(* (invoices already stored for the date) + 1, and no two stored         *)
(* invoices share an invoice_no.                                         *)
C2_SequenceCountsInvoices ==
    /\ \A i \in DOMAIN invoice :
          invoice[i].invoice_no =
             <<"INV", DatePart(invoice[i].created_at),
               1 + Cardinality({ j \in 1 .. (i - 1) :
                     DatePart(invoice[j].created_at)
                        = DatePart(invoice[i].created_at) })>>
    /\ \A i, j \in DOMAIN invoice :
          i # j => invoice[i].invoice_no # invoice[j].invoice_no

(* C3: a create-invoice request rejected for an unknown product or for   *)
(* insufficient stock, whichever cart line fails, stores no invoice and  *)
(* changes no product.                                                   *)
C3_RejectedCartChangesNothing ==
    [][ ( /\ RequestStep
          /\ response'.op = "create_invoice"
          /\ response'.status = 400
          /\ response'.detail \in {"Product not found", "Insufficient stock for"} )
        => (user' = user /\ product' = product /\ invoice' = invoice) ]_vars

(* C3 witness: a two-line cart whose first line is in stock was rejected *)
(* on its second line.                                                   *)
C3_Witness ==
    /\ response.op = "create_invoice"
    /\ response.status = 400
    /\ response.detail = "Insufficient stock for"
    /\ request.args.items = <<Line(1, 1), Line(2, 2)>>
    /\ \E i, j \in DOMAIN product :
          /\ Str(product[i]._id) = 1 /\ product[i].quantity >= 1
          /\ Str(product[j]._id) = 2 /\ product[j].quantity < 2
          /\ response.about = [name |-> product[j].name]

(* C4: a create-invoice request that succeeds stores exactly one new     *)
(* invoice and lowers each product's quantity by exactly the quantity    *)
(* the cart sells of it; a product that is not in the cart is unchanged. *)
C4_StockLoweredByQuantitySold ==
    [][ InvoiceCreated =>
          /\ Len(invoice') = Len(invoice) + 1
          /\ SubSeq(invoice', 1, Len(invoice)) = invoice
          /\ Str(invoice'[Len(invoice')]._id) = response'.body._id
          /\ Len(product') = Len(product)
          /\ \A i \in DOMAIN product :
                product'[i] =
                   [product[i] EXCEPT !.quantity =
                       @ - Sold(request'.args.items, Str(product[i]._id))] ]_vars

(* C4 witness: a cart with two lines for the same product was sold while *)
(* the catalog held a second product that the cart does not mention.     *)
C4_Witness ==
    /\ response.op = "create_invoice"
    /\ response.status = 200
    /\ request.args.items = <<Line(1, 2), Line(1, 1)>>
    /\ \E i, j \in DOMAIN product :
          Str(product[i]._id) = 1 /\ Str(product[j]._id) = 2

(* C5: in thousandths, every stored invoice has subtotal = sum of        *)
(* quantity * price, tax_amount = 0.05 * max(subtotal - discount, 0)     *)
(* rounded to the nearest thousandth, and grand_total =                  *)
(* max(subtotal - discount, 0) + tax_amount; a discount above the        *)
(* subtotal gives tax_amount = 0 and grand_total = 0, never a negative.  *)
C5_Totals ==
    \A i \in DOMAIN invoice :
       LET v == invoice[i]
           taxable == Max(v.subtotal - v.discount, 0)
       IN  /\ v.subtotal = SumLines(v.items)
           /\ Abs(20 * v.tax_amount - taxable) <= 10
           /\ v.grand_total = taxable + v.tax_amount
           /\ v.discount > v.subtotal => (v.tax_amount = 0 /\ v.grand_total = 0)
           /\ v.tax_amount >= 0 /\ v.grand_total >= 0

(* C5 witness: an invoice whose discount exceeds its non-zero subtotal,  *)
(* and an invoice whose tax is rounded up.                               *)
C5_Witness ==
    /\ \E i \in DOMAIN invoice :
          invoice[i].subtotal > 0 /\ invoice[i].discount > invoice[i].subtotal
    /\ \E i \in DOMAIN invoice :
          20 * invoice[i].tax_amount > Max(invoice[i].subtotal - invoice[i].discount, 0)

(* C6: get-invoice with the invoice_no that the most recent successful   *)
(* create-invoice returned answers with that very invoice: the same      *)
(* storage identifier, items, subtotal, discount, tax_amount and         *)
(* grand_total.                                                          *)
C6_RoundTrip ==
    [][ ( /\ RequestStep
          /\ response.op = "create_invoice"
          /\ response.status = 200
          /\ response'.op = "get_invoice"
          /\ request'.args.invoice_no = response.body.invoice_no )
        => /\ response'.status = 200
           /\ response'.body._id = response.body._id
           /\ \E i \in DOMAIN invoice :
                 /\ Str(invoice[i]._id) = response.body._id
                 /\ response'.body.items = invoice[i].items
                 /\ response'.body.subtotal = invoice[i].subtotal
                 /\ response'.body.discount = invoice[i].discount
                 /\ response'.body.tax_amount = invoice[i].tax_amount
                 /\ response'.body.grand_total = invoice[i].grand_total ]_vars

(* C7: add-product with a barcode that a stored product already has is   *)
(* rejected and leaves the products unchanged; add-product without a     *)
(* barcode is never rejected and creates a product.                      *)
C7_BarcodeChecked ==
    [][ ( RequestStep /\ response'.op = "add_product" )
        => IF /\ request'.args.barcode # None
              /\ \E i \in DOMAIN product :
                    product[i].barcode = request'.args.barcode
           THEN response'.status # 200 /\ product' = product
           ELSE request'.args.barcode = None
                => /\ response'.status = 200
                   /\ Len(product') = Len(product) + 1
                   /\ product'[Len(product')].barcode = None ]_vars

(* C8: a request to a protected endpoint whose credentials match no      *)
(* active user with that password is answered 401 with the same body,    *)
(* whether the user is unknown, inactive or the password wrong, and      *)
(* leaves users, products and invoices unchanged.                        *)
C8_Unauthorized ==
    [][ ( /\ RequestStep
          /\ ~ \E i \in DOMAIN user :
                  /\ user[i].username = request'.cred.username
                  /\ user[i].is_active
                  /\ user[i].password_hash = request'.cred.password )
        => /\ response'.status = 401
           /\ response'.detail = "Invalid credentials"
           /\ response'.about = Absent
           /\ response'.op = ""
           /\ response'.body = Absent
           /\ request'.args = Absent
           /\ user' = user /\ product' = product /\ invoice' = invoice ]_vars

(* C8 witness: an inactive user presented the stored password and got    *)
(* 401 while products and invoices were in the store.                    *)
C8_Witness ==
    /\ response.status = 401
    /\ \E i \in DOMAIN user :
          /\ user[i].username = request.cred.username
          /\ ~user[i].is_active
          /\ user[i].password_hash = request.cred.password
    /\ product # <<>>
    /\ invoice # <<>>

(* C9: a create-invoice request with an empty items list is rejected, so *)
(* every stored invoice has at least one item.                           *)
C9_NoEmptyInvoice ==
    \A i \in DOMAIN invoice : invoice[i].items # <<>>

(* C10: a stored invoice is never changed or removed by a later request. *)
C10_InvoicesImmutable ==
    [][ /\ Len(invoice') >= Len(invoice)
        /\ \A i \in DOMAIN invoice : invoice'[i] = invoice[i] ]_vars

(* C10 witness: an invoice holds the name and price a product had when   *)
(* it was sold, after the product was edited, and another after its      *)
(* product was deleted.                                                  *)
C10_Witness ==
    /\ \E i \in DOMAIN invoice : \E k \in DOMAIN invoice[i].items :
          \E j \in DOMAIN product :
             /\ Str(product[j]._id) = invoice[i].items[k].product_id
             /\ product[j].name # invoice[i].items[k].name
             /\ product[j].selling_price # invoice[i].items[k].price
    /\ \E i \in DOMAIN invoice : \E k \in DOMAIN invoice[i].items :
          \A j \in DOMAIN product :
             Str(product[j]._id) # invoice[i].items[k].product_id

(* The identifier strings of a cart that match no stored product *)
MissingIds(cart) ==
    { cart[k].product_id : k \in DOMAIN cart }
    \ { Str(product[i]._id) : i \in DOMAIN product }

(* C11: a create-invoice request whose cart holds a product identifier   *)
(* that matches no stored product, well-formed or not, is answered 400   *)
(* Product not found, naming such an identifier, and by no other error.  *)
C11_UnknownProductIs400 ==
    [][ ( /\ RequestStep
          /\ response'.op = "create_invoice"
          /\ MissingIds(request'.args.items) # {} )
        => /\ response'.status = 400
           /\ response'.detail = "Product not found"
           /\ \E id \in MissingIds(request'.args.items) :
                 response'.about = [product_id |-> id] ]_vars

(* C15: with requests served one at a time, no two stored products have  *)
(* the same barcode when the barcode is present (not None), whatever     *)
(* sequence of add-product, update-product and delete-product requests   *)
(* came before.                                                          *)
C15_BarcodesUnique ==
    \A i, j \in DOMAIN product :
       (i # j /\ product[i].barcode # None)
          => product[i].barcode # product[j].barcode

(* The same for barcodes that are not empty either: only update_product  *)
(* can break it.                                                         *)
C15_NonEmptyBarcodesUnique ==
    \A i, j \in DOMAIN product :
       (i # j /\ Truthy(product[i].barcode))
          => product[i].barcode # product[j].barcode

(* C16: a create-invoice request whose cart passes the checks is         *)
(* processed whatever discount the caller sent, a negative one included: *)
(* it is answered 200, the stored invoice's discount is >= 0 and its     *)
(* taxable base (grand_total - tax_amount) does not exceed its subtotal. *)
C16_DiscountCoerced ==
    [][ ( /\ RequestStep
          /\ response'.op = "create_invoice"
          /\ \A k \in DOMAIN request'.args.items :
                IsObjectIdString(request'.args.items[k].product_id)
          /\ BuildItems(request'.args.items,
                        ProdMap(request'.args.items)).err.status = 200 )
        => /\ response'.status = 200
           /\ Len(invoice') = Len(invoice) + 1
           /\ invoice'[Len(invoice')].discount >= 0
           /\ invoice'[Len(invoice')].grand_total
                 - invoice'[Len(invoice')].tax_amount
                 <= invoice'[Len(invoice')].subtotal ]_vars

(* C18: a create-invoice request either fails with nothing written, or   *)
(* sells only lines of quantity >= 1: no product's quantity goes up, a   *)
(* product that changes loses at least 1, and every item of every stored *)
(* invoice has quantity >= 1.                                            *)
C18_StockNeverRaised ==
    [][ ( RequestStep /\ response'.op = "create_invoice" )
        => /\ \/ /\ response'.status # 200
                 /\ product' = product
                 /\ invoice' = invoice
              \/ /\ response'.status = 200
                 /\ \A k \in DOMAIN request'.args.items :
                       request'.args.items[k].quantity >= 1
                 /\ Len(product') = Len(product)
                 /\ \A i \in DOMAIN product :
                       \/ product'[i] = product[i]
                       \/ product'[i].quantity <= product[i].quantity - 1
           /\ \A i \in DOMAIN invoice' : \A k \in DOMAIN invoice'[i].items :
                 invoice'[i].items[k].quantity >= 1 ]_vars

(* C18 witness: a cart with a line of negative quantity, for a product   *)
(* that is in stock, was refused with nothing written; and a product has *)
(* been sold.                                                            *)
C18_Witness ==
    /\ response.op = "create_invoice"
    /\ response.status = 500
    /\ request.args.items = <<Line(1, 1), Line(1, -1)>>
    /\ \E i \in DOMAIN product :
          Str(product[i]._id) = 1 /\ product[i].quantity >= 1
    /\ \E i \in DOMAIN invoice : invoice[i].items # <<>>

(* The sum of a field over the invoices at the indices S *)
RECURSIVE SumAt(_, _)
SumAt(S, field) ==
    IF S = {} THEN 0
    ELSE LET i == CHOOSE x \in S : TRUE
         IN  invoice[i][field] + SumAt(S \ {i}, field)

(* The invoices created in month m of year y, by the calendar *)
CreatedIn(y, m) ==
    { i \in DOMAIN invoice :
        YearOf(invoice[i].created_at) = y /\ MonthOf(invoice[i].created_at) = m }

(* C12: the monthly report of (year, month), the current ones when       *)
(* omitted, counts exactly the invoices created in that calendar month   *)
(* and sums their grand_total, subtotal, discount and tax_amount: the    *)
(* December report takes an invoice of the last half second of December  *)
(* 31 and leaves out one of the first instant of January 1.              *)
C12_MonthlyWindow ==
    [][ ( RequestStep /\ response'.op = "monthly_report" )
        => LET y == IF request'.args.year = 0 THEN YearOf(now)
                    ELSE request'.args.year
               m == IF request'.args.month = 0 THEN MonthOf(now)
                    ELSE request'.args.month
               S == CreatedIn(y, m)
           IN  /\ response'.status = 200
               /\ response'.body.count = Cardinality(S)
               /\ response'.body.sales = SumAt(S, "grand_total")
               /\ response'.body.subtotal = SumAt(S, "subtotal")
               /\ response'.body.discount = SumAt(S, "discount")
               /\ response'.body.tax = SumAt(S, "tax_amount") ]_vars

(* C12 witness: the report of December 2024 counted one invoice, with a  *)
(* non-zero total, while the store held an invoice of 2024-12-31         *)
(* 23:59:59.5 and an invoice of 2025-01-01 00:00:00.                     *)
C12_Witness ==
    /\ response.op = "monthly_report"
    /\ request.args = [year |-> 2024, month |-> 12]
    /\ response.body.count = 1
    /\ response.body.sales > 0
    /\ \E i \in DOMAIN invoice :
          invoice[i].created_at = InstantOf(2025, 1, 1) - 1
    /\ \E i \in DOMAIN invoice :
          invoice[i].created_at = InstantOf(2025, 1, 1)

(* The sum of a field of the daily reports of days 1 .. d of a month *)
RECURSIVE SumDaily(_, _, _, _)
SumDaily(y, m, d, field) ==
    IF d = 0 THEN 0
    ELSE DailyReport(invoice, <<y, m, d>>, now)[field]
         + SumDaily(y, m, d - 1, field)

(* C19: for December 2024 and for January 2025, the counts of the daily  *)
(* reports of the 31 days of the month add up to the count of the        *)
(* monthly report, and so do their sales.                                *)
C19_DailyAddUpToMonthly ==
    \A ym \in { <<2024, 12>>, <<2025, 1>> } :
       /\ SumDaily(ym[1], ym[2], 31, "count")
             = MonthlyReport(invoice, ym[1], ym[2], now).count
       /\ SumDaily(ym[1], ym[2], 31, "sales")
             = MonthlyReport(invoice, ym[1], ym[2], now).sales

(* The quantity of product pid that the stock updates made so far by the *)
(* requests in S have deducted                                           *)
RECURSIVE Deducted(_, _)
Deducted(S, pid) ==
    IF S = {} THEN 0
    ELSE LET c == CHOOSE x \in S : TRUE
         IN  Sold(SubSeq(calls[c].payload.items, 1, calls[c].done), pid)
             + Deducted(S \ {c}, pid)

(* The quantity of product pid in a sequence of product documents *)
QuantityIn(docs, pid) ==
    LET i == CHOOSE x \in DOMAIN docs : Str(docs[x]._id) = pid
    IN  docs[i].quantity

(* The request has passed the availability check *)
Checked(c) == calls[c].pc \in {"built", "stored", "failed"}
              \/ (calls[c].pc = "done" /\ calls[c].response.status = 200)

(* C13: the availability check and the decrements are separate steps and *)
(* no decrement looks at the stock again: every product's quantity is    *)
(* what the catalog held minus all the decrements made so far, whatever  *)
(* the interleaving; so two requests that both passed the check on the   *)
(* same stock both deduct in full, and the quantity goes below zero when *)
(* together they ask more than that stock.                               *)
C13_EveryDecrementApplies ==
    /\ \A i \in DOMAIN product :
          product[i].quantity =
             CallCatalog[i].quantity - Deducted(Calls, Str(product[i]._id))
    /\ \A c \in Calls : \A k \in DOMAIN calls[c].payload.items :
          Checked(c) =>
             calls[c].payload.items[k].quantity
                <= QuantityIn(calls[c].prod_map,
                              calls[c].payload.items[k].product_id)

(* C13 witness: two requests for product 1 were both answered 200, each  *)
(* asked no more than the quantity it read, both read the quantity of    *)
(* the catalog (so both checks came before either decrement), and the    *)
(* product's quantity is below zero.                                     *)
C13_Witness ==
    \E c, d \in Calls :
       /\ c # d
       /\ \A x \in {c, d} :
             /\ calls[x].pc = "done"
             /\ calls[x].response.status = 200
             /\ Sold(calls[x].payload.items, 1) >= 1
             /\ QuantityIn(calls[x].prod_map, 1) = QuantityIn(CallCatalog, 1)
             /\ Sold(calls[x].payload.items, 1) <= QuantityIn(calls[x].prod_map, 1)
       /\ QuantityIn(product, 1) < 0

(* The invoice of request c is in the store *)
InvoiceStored(c, coll) ==
    \E k \in DOMAIN coll :
       /\ Str(coll[k]._id) = calls[c].inserted_id
       /\ coll[k].invoice_no = calls[c].invoice_no
       /\ coll[k].items = calls[c].items

(* C14: a step that changes a product is one stock update of a request   *)
(* whose invoice is already stored, and it lowers the product of that    *)
(* request's next line; a request whose create_document fails changes no *)
(* product, then or later: a request that ended without a stored invoice *)
(* has made no stock update.                                             *)
C14_DecrementAfterPersist ==
    [][ /\ product' # product =>
             \E c \in Calls :
                /\ calls[c].pc = "stored"
                /\ InvoiceStored(c, invoice)
                /\ calls'[c].done = calls[c].done + 1
                /\ \A d \in Calls \ {c} : calls'[d] = calls[d]
                /\ \A i \in DOMAIN product :
                      product'[i].quantity =
                         product[i].quantity
                         - Sold(SubSeq(calls[c].payload.items,
                                       calls'[c].done, calls'[c].done),
                                Str(product[i]._id))
        /\ \A c \in Calls :
             ( calls[c].pc = "built" /\ calls'[c].pc = "done" )
                => product' = product /\ invoice' = invoice
        /\ \A c \in Calls :
             ( calls'[c].pc \in {"idle", "built", "done"}
               /\ ~InvoiceStored(c, invoice') )
                => calls'[c].done = 0 ]_vars

(* C14 witness: one request ended because create_document failed, with   *)
(* no stock update of its own, while another request sold its cart.      *)
C14_Witness ==
    \E c, d \in Calls :
       /\ calls[c].pc = "done"
       /\ calls[c].response.detail = "PyMongoError"
       /\ calls[c].done = 0
       /\ calls[d].pc = "done"
       /\ calls[d].response.status = 200
       /\ calls[d].done = Len(calls[d].payload.items)
       /\ calls[d].done >= 1
       /\ \A i \in DOMAIN product :
             product[i].quantity =
                CallCatalog[i].quantity
                - Sold(calls[d].payload.items, Str(product[i]._id))

(* C17: once a request has failed between create_document and the end of *)
(* its stock updates, its invoice stays in the store with all its lines, *)
(* the number of its lines deducted from stock stays below the number of *)
(* its lines, and no later step changes either.                          *)
C17_PartialStateKept ==
    [][ \A c \in Calls :
          calls[c].pc = "failed" =>
             /\ calls'[c] = calls[c]
             /\ calls[c].done < Len(calls[c].payload.items)
             /\ InvoiceStored(c, invoice)
             /\ InvoiceStored(c, invoice')
             /\ \A i \in DOMAIN product :
                   product[i].quantity - product'[i].quantity
                      = Deducted(Calls \ {c}, Str(product[i]._id))'
                        - Deducted(Calls \ {c}, Str(product[i]._id)) ]_vars

(* C17 witness: a request for a two-line cart failed after its first     *)
(* stock update; every other request has ended since; the invoice is     *)
(* stored with both lines, the first line's product is lowered and the   *)
(* second line's product still has the quantity of the catalog.          *)
C17_Witness ==
    \E c \in Calls :
       /\ calls[c].pc = "failed"
       /\ calls[c].payload.items = <<Line(1, 1), Line(2, 1)>>
       /\ calls[c].done = 1
       /\ InvoiceStored(c, invoice)
       /\ \A d \in Calls \ {c} :
             calls[d].pc = "done" /\ calls[d].response.status = 200
       /\ QuantityIn(product, 1) < QuantityIn(CallCatalog, 1)
       /\ QuantityIn(product, 2) = QuantityIn(CallCatalog, 2)

====
